---- MODULE Spec2Model ----
(***************************************************************************)
(* A model of workspace_core: WorkspaceBuilder (src/workspace_builder.py)  *)
(* and generate_workspace_file.                                            *)
(*                                                                         *)
(* Python objects are modelled with a heap, because build_workspace puts   *)
(* the callers' objects into the document by reference: a TargetLayer's    *)
(* default (line 110) and the values of a step's content (line 86) are     *)
(* shared between the step list and every document built from it.          *)
(***************************************************************************)
EXTENDS Integers, Sequences, FiniteSets, TLC

VARIABLES
    fs,         \* the filesystem: the directories that exist, each file's contents
    builder,    \* the WorkspaceBuilder the caller holds (none before construction)
    steps,      \* self.steps: the registered steps, their objects held by reference
    heap,       \* the mutable objects (dicts, lists) the registered steps refer to
    regSteps,   \* history: each registered step as the caller wrote it
    heap0,      \* history: the heap when the last build_workspace() call started
    lastBuild,  \* history: the outcome of the last build_workspace() call
    prevBuild,  \* history: the outcome of the build before it, on the same steps
    lastOp,     \* history: the last operation called and the error it raised
    lastArg,    \* history: the argument of the last call (a step, a path, a document)
    genIn,      \* history: the arguments of the last generate_workspace_file call
    genOut      \* history: what that call returned or raised, and its document

vars == <<fs, builder, steps, heap, regSteps, heap0, lastBuild, prevBuild,
          lastOp, lastArg, genIn, genOut>>

(***************************************************************************)
(* Bounds.                                                                 *)
(***************************************************************************)
\* The total size of the steps registered at one time (Spec).
MaxSize == 6
\* The same, where the filesystem is modelled too (SpecFile).
MaxSizeFile == 2
\* The number of module records passed to generate_workspace_file (SpecGen).
MaxModules == 3

Keys == {"a", "b"}
Scalars == {1}

(***************************************************************************)
(* JSON-like values, by structure: what a document or a literal the caller *)
(* writes looks like. t is "s" (a scalar v), "dict" (a mapping m), "list"  *)
(* (a sequence; the builder only ever meets empty ones) or "nonser" (a     *)
(* value json cannot serialize).                                           *)
(***************************************************************************)
EmptyMap == [k \in {} |-> 0]
ScalarV(n) == [t |-> "s", v |-> n, m |-> EmptyMap]
DictV(f) == [t |-> "dict", v |-> 0, m |-> f]
ListV == [t |-> "list", v |-> 0, m |-> EmptyMap]
NonSerV == [t |-> "nonser", v |-> 0, m |-> EmptyMap]
NoDoc == [t |-> "none", v |-> 0, m |-> EmptyMap]

MapsInto(S) == UNION {[D -> S] : D \in SUBSET Keys}
ScalarVs == {ScalarV(n) : n \in Scalars}
\* The values a step's content may hold: a scalar, or a mapping of scalars.
ContentVs == ScalarVs \cup {DictV(f) : f \in MapsInto(ScalarVs)}
\* TargetLayer (lines 9-12): a key and a default, an empty mapping or sequence.
Layers == [key : Keys, default : {DictV(EmptyMap), ListV}]

RECURSIVE SumOver(_, _)
SumOver(f, D) ==
    IF D = {} THEN 0
    ELSE LET k == CHOOSE x \in D : TRUE IN f[k] + SumOver(f, D \ {k})

\* A step counts one, and one more for each of its layers, for each key of its
\* content and for each mapping among the content's values.
SizeV(x) == IF x.t = "dict" THEN 1 ELSE 0
SizeContent(c) == SumOver([k \in DOMAIN c |-> 1 + SizeV(c[k])], DOMAIN c)
SizeStep(a) == 1 + Len(a.target) + SizeContent(a.content) + (IF a.mapping THEN 0 ELSE 1)
SizeSteps(reg) == SumOver([i \in DOMAIN reg |-> SizeStep(reg[i])], DOMAIN reg)

(***************************************************************************)
(* The arguments a caller may pass to add_step. inst: the argument is a    *)
(* WorkspaceBuildingStep (lines 15-18; the dataclass checks no field).     *)
(* tgt: its target is a list of TargetLayer ("layers"), is not iterable    *)
(* ("noniter", e.g. None) or holds elements that are no TargetLayer        *)
(* ("nonlayer", e.g. strings). mapping: its content is a dict.             *)
(***************************************************************************)
StepArg(tgt, target, mapping, content) ==
    [inst |-> TRUE, tgt |-> tgt, target |-> target, mapping |-> mapping, content |-> content]
NotAStep == [StepArg("layers", <<>>, TRUE, EmptyMap) EXCEPT !.inst = FALSE]
NoArg == [NotAStep EXCEPT !.tgt = "none"]
BadArgs ==
    {NotAStep, StepArg("noniter", <<>>, TRUE, EmptyMap), StepArg("nonlayer", <<>>, TRUE, EmptyMap)}
TargetsUpTo(n) == UNION {[1..d -> Layers] : d \in 0..n}
\* The arguments of size at most n: malformed ones, and steps with a list of
\* TargetLayer as target whose content is a mapping or (mapping FALSE) is not.
StepArgs(n) ==
    BadArgs \cup
    {a \in {StepArg("layers", tg, TRUE, c) : tg \in TargetsUpTo(n - 1), c \in MapsInto(ContentVs)}
        : SizeStep(a) <= n} \cup
    {StepArg("layers", tg, FALSE, EmptyMap) : tg \in TargetsUpTo(n - 2)}

(***************************************************************************)
(* The heap. A reference is [t |-> "ref", v |-> index into heap], a scalar *)
(* [t |-> "s", v |-> n]; an object is [t |-> "dict" or "list", m |-> its   *)
(* entries]. Root stands for workspace_data, the dict a build starts from. *)
(***************************************************************************)
Ref(i) == [t |-> "ref", v |-> i]
Scal(n) == [t |-> "s", v |-> n]
Root == [t |-> "root", v |-> 0]
Obj(t, f) == [t |-> t, m |-> f]

\* The structure a heap value stands for.
RECURSIVE Deref(_, _)
Deref(h, x) ==
    IF x.t = "s" THEN ScalarV(x.v)
    ELSE [t |-> h[x.v].t, v |-> 0, m |-> [k \in DOMAIN h[x.v].m |-> Deref(h, h[x.v].m[k])]]
DerefMap(h, f) == DictV([k \in DOMAIN f |-> Deref(h, f[k])])

KeyIdx(k) == IF k = "a" THEN 1 ELSE 2
\* The objects a caller's step literal creates: its defaults, then the mappings
\* among its content's values; and the step that refers to them.
AllocStep(h, a) ==
    LET n == Len(h)
        d == Len(a.target)
        dictKeys == {k \in DOMAIN a.content : a.content[k].t = "dict"}
        rank(k) == Cardinality({j \in dictKeys : KeyIdx(j) < KeyIdx(k)})
        keyAt(r) == CHOOSE k \in dictKeys : rank(k) = r
        defaults == [i \in 1..d |-> Obj(a.target[i].default.t, EmptyMap)]
        nested == [r \in 1..Cardinality(dictKeys) |->
                     Obj("dict", [j \in DOMAIN a.content[keyAt(r - 1)].m |->
                                     Scal(a.content[keyAt(r - 1)].m[j].v)])]
    IN [heap |-> h \o defaults \o nested,
        step |-> [target |-> [i \in 1..d |-> [key |-> a.target[i].key, def |-> Ref(n + i)]],
                  mapping |-> a.mapping,
                  content |-> [k \in DOMAIN a.content |->
                                 IF a.content[k].t = "dict" THEN Ref(n + d + rank(k) + 1)
                                 ELSE Scal(a.content[k].v)]]]

\* A registered step as it reads now: the literal its objects stand for.
StepView(h, s) ==
    StepArg("layers",
            [i \in DOMAIN s.target |-> [key |-> s.target[i].key, default |-> Deref(h, s.target[i].def)]],
            s.mapping,
            [k \in DOMAIN s.content |-> Deref(h, s.content[k])])
StepsView(h, ss) == [i \in DOMAIN ss |-> StepView(h, ss[i])]

(***************************************************************************)
(* build_workspace (lines 69-91) and its helpers. A build state b is       *)
(* [h: the heap, root: workspace_data's entries, err: the error raised,    *)
(* at: the step that raised it].                                           *)
(***************************************************************************)
IsDict(b, cur) == cur.t = "root" \/ (cur.t = "ref" /\ b.h[cur.v].t = "dict")
MapOf(b, cur) == IF cur.t = "root" THEN b.root ELSE b.h[cur.v].m
SetMap(b, cur, f) ==
    IF cur.t = "root" THEN [b EXCEPT !.root = f]
    ELSE [b EXCEPT !.h[cur.v].m = f]

\* dict.update (line 86): the other mapping's entries replace or extend this one's.
DictUpdate(f, g) ==
    [k \in DOMAIN f \cup DOMAIN g |-> IF k \in DOMAIN g THEN g[k] ELSE f[k]]

\* Faulty variant of EnsureKey, against which the properties are tried: a value that is no mapping is replaced by the default.
EnsureKeyReplaceNonMapping(b, cur, key, def) ==
    IF key \in DOMAIN MapOf(b, cur) /\ IsDict(b, MapOf(b, cur)[key]) THEN b
    ELSE SetMap(b, cur, DictUpdate(MapOf(b, cur), [k \in {key} |-> def]))

\* Faulty variant of EnsureKey, against which the properties are tried: the default is stored whether or not the key is present.
EnsureKeyAlways(b, cur, key, def) ==
    SetMap(b, cur, DictUpdate(MapOf(b, cur), [k \in {key} |-> def]))

\* _ensure_key (lines 108-110): the default object itself is stored.
EnsureKey(b, cur, key, def) ==
    IF key \in DOMAIN MapOf(b, cur) THEN b
    ELSE SetMap(b, cur, DictUpdate(MapOf(b, cur), [k \in {key} |-> def]))

\* _chain_ensure_key (lines 112-123), from the i-th key on.
RECURSIVE ChainEnsureKey(_, _, _, _)
ChainEnsureKey(b, cur, target, i) ==
    IF i > Len(target) THEN [b |-> b, cur |-> cur, err |-> "none"]
    ELSE IF ~IsDict(b, cur) THEN [b |-> b, cur |-> cur, err |-> "ADHDError"]
    ELSE LET b1 == EnsureKey(b, cur, target[i].key, target[i].def)
         IN ChainEnsureKey(b1, MapOf(b1, cur)[target[i].key], target, i + 1)

\* Faulty variant of ApplyStep, against which the properties are tried: a deep merge. Where the target and the content both hold
\* a mapping at a key, the content's entries are merged into the target's mapping.
ApplyStepDeepMerge(b, step, n) ==
    LET c == ChainEnsureKey(b, Root, step.target, 1)
        f == MapOf(c.b, c.cur)
        both == {k \in DOMAIN f \cap DOMAIN step.content :
                    IsDict(c.b, f[k]) /\ IsDict(c.b, step.content[k])}
        merged == [c.b EXCEPT !.h = [i \in DOMAIN c.b.h |->
                     IF \E k \in both : f[k].v = i
                     THEN LET k == CHOOSE k \in both : f[k].v = i
                          IN [c.b.h[i] EXCEPT !.m = DictUpdate(c.b.h[i].m, c.b.h[step.content[k].v].m)]
                     ELSE c.b.h[i]]]
    IN IF c.err # "none" THEN [c.b EXCEPT !.err = c.err, !.at = n]
       ELSE IF ~IsDict(c.b, c.cur) THEN [c.b EXCEPT !.err = "ADHDError", !.at = n]
       ELSE IF ~step.mapping THEN [c.b EXCEPT !.err = "TypeError", !.at = n]
       ELSE SetMap(merged, c.cur,
                   [k \in DOMAIN f \cup DOMAIN step.content |->
                      IF k \in DOMAIN step.content /\ k \notin both THEN step.content[k] ELSE f[k]])

\* The body of build_workspace's loop (lines 77-89) for step number n.
ApplyStep(b, step, n) ==
    LET c == ChainEnsureKey(b, Root, step.target, 1)
    IN IF c.err # "none" THEN [c.b EXCEPT !.err = c.err, !.at = n]
       ELSE IF ~IsDict(c.b, c.cur) THEN [c.b EXCEPT !.err = "ADHDError", !.at = n]
       ELSE IF ~step.mapping THEN [c.b EXCEPT !.err = "TypeError", !.at = n]
       ELSE SetMap(c.b, c.cur, DictUpdate(MapOf(c.b, c.cur), step.content))

\* build_workspace on the first n steps, from heap h.
RECURSIVE ApplySteps(_, _, _)
ApplySteps(h, ss, n) ==
    IF n = 0 THEN [h |-> h, root |-> EmptyMap, err |-> "none", at |-> 0]
    ELSE LET p == ApplySteps(h, ss, n - 1)
         IN IF p.err # "none" THEN p ELSE ApplyStep(p, ss[n], n)

BuildWorkspace(h, ss) == ApplySteps(h, ss, Len(ss))

NoBuild == [st |-> "none", doc |-> NoDoc, at |-> 0]
BuildResult(b) ==
    IF b.err = "none" THEN [st |-> "ok", doc |-> DerefMap(b.h, b.root), at |-> 0]
    ELSE [st |-> b.err, doc |-> NoDoc, at |-> b.at]

(***************************************************************************)
(* Paths and the filesystem. A path is [dir, name, ext]: its parent        *)
(* directory and its final component, name and extension. A file's         *)
(* contents are absent, "foreign" (text this program did not write),       *)
(* "json" (the text json.dumps gives for doc; the text is stood for by the *)
(* document it encodes), "empty" (a file truncated to nothing) or          *)
(* "partial" (a proper prefix of the text for doc).                        *)
(***************************************************************************)
RequiredSuffix == ".code-workspace"
Cwd == "proj"
WsPath == [dir |-> "proj", name |-> "proj", ext |-> ".code-workspace"]
OtherPath == [dir |-> "out", name |-> "notes", ext |-> ".json"]
NoPath == [dir |-> "", name |-> "", ext |-> ""]
Paths == {WsPath, OtherPath}
Dirs == {p.dir : p \in Paths}

File(kind, doc) == [kind |-> kind, doc |-> doc]
Absent == File("absent", NoDoc)
Foreign == File("foreign", NoDoc)
IoOutcomes == {"ok", "mkdir_fail", "open_fail", "write_fail_empty", "write_fail_partial"}

\* Lines 26-31: the path given, or <cwd>/<cwd name>.code-workspace.
ResolveWorkspacePath(p) ==
    IF p = NoPath THEN [dir |-> Cwd, name |-> Cwd, ext |-> RequiredSuffix] ELSE p
\* Line 33: str(self.workspace_path).endswith(".code-workspace").
EndsWithSuffix(p) == p.ext = RequiredSuffix

\* Faulty variant of NewBuilder, against which the properties are tried: the suffix is checked after the directory and the file
\* have been prepared.
NewBuilderLateCheck(f, arg, io) ==
    LET p == ResolveWorkspacePath(arg)
        f1 == [f EXCEPT !.dirs = @ \cup {p.dir}]
        f2 == IF f1.files[p].kind = "absent"
              THEN [f1 EXCEPT !.files[p] = File("json", DictV(EmptyMap))] ELSE f1
    IN IF p.dir \notin f.dirs /\ io = "mkdir_fail" THEN [fs |-> f, err |-> "ADHDError"]
       ELSE IF ~EndsWithSuffix(p) THEN [fs |-> f2, err |-> "ValueError"]
       ELSE [fs |-> f2, err |-> "none"]

\* WorkspaceBuilder.__init__ (lines 23-58) on filesystem f, where io is what the
\* operating system does: the filesystem after it and the error raised.
NewBuilder(f, arg, io) ==
    LET p == ResolveWorkspacePath(arg)
        f1 == [f EXCEPT !.dirs = @ \cup {p.dir}]
    IN IF ~EndsWithSuffix(p) THEN [fs |-> f, err |-> "ValueError"]
       ELSE IF p.dir \notin f.dirs /\ io = "mkdir_fail" THEN [fs |-> f, err |-> "ADHDError"]
       ELSE IF f1.files[p].kind # "absent" THEN [fs |-> f1, err |-> "none"]
       ELSE IF io = "open_fail" THEN [fs |-> f1, err |-> "ADHDError"]
       ELSE IF io \in {"write_fail_empty", "write_fail_partial"}
            THEN [fs |-> [f1 EXCEPT !.files[p] = File("empty", NoDoc)], err |-> "ADHDError"]
       ELSE [fs |-> [f1 EXCEPT !.files[p] = File("json", DictV(EmptyMap))], err |-> "none"]

\* json.dumps (line 96) raises on a value it cannot serialize.
RECURSIVE Serializable(_)
Serializable(x) ==
    /\ x.t # "nonser"
    /\ \A k \in DOMAIN x.m : Serializable(x.m[k])

\* Faulty variant of WriteWorkspace, against which the properties are tried: the file is opened before the document is serialized
\* (json.dump into the open file).
WriteWorkspaceDumpIntoFile(f, p, doc, io) ==
    IF io = "open_fail" THEN [fs |-> f, err |-> "ADHDError", at |-> "open"]
    ELSE IF ~Serializable(doc)
         THEN [fs |-> [f EXCEPT !.files[p] = File("empty", NoDoc)], err |-> "ADHDError", at |-> "dumps"]
    ELSE IF io = "write_fail_empty"
         THEN [fs |-> [f EXCEPT !.files[p] = File("empty", NoDoc)], err |-> "ADHDError", at |-> "write"]
    ELSE IF io = "write_fail_partial"
         THEN [fs |-> [f EXCEPT !.files[p] = File("partial", doc)], err |-> "ADHDError", at |-> "write"]
    ELSE [fs |-> [f EXCEPT !.files[p] = File("json", doc)], err |-> "none", at |-> ""]

\* write_workspace (lines 93-106) to path p. open(..., "w") truncates the file;
\* a write that fails after it leaves the file empty or with a part of the text.
WriteWorkspace(f, p, doc, io) ==
    IF ~Serializable(doc) THEN [fs |-> f, err |-> "ADHDError", at |-> "dumps"]
    ELSE IF io = "open_fail" THEN [fs |-> f, err |-> "ADHDError", at |-> "open"]
    ELSE IF io = "write_fail_empty"
         THEN [fs |-> [f EXCEPT !.files[p] = File("empty", NoDoc)], err |-> "ADHDError", at |-> "write"]
    ELSE IF io = "write_fail_partial"
         THEN [fs |-> [f EXCEPT !.files[p] = File("partial", doc)], err |-> "ADHDError", at |-> "write"]
    ELSE [fs |-> [f EXCEPT !.files[p] = File("json", doc)], err |-> "none", at |-> ""]

(***************************************************************************)
(* add_step (lines 60-64). The isinstance test is the only check; the      *)
(* debug message of line 63 reads step.target and each element's .target   *)
(* before the append, so a target that cannot be read that way raises.     *)
(***************************************************************************)
\* Faulty variant of AddStepError, against which the properties are tried: no isinstance test.
AddStepErrorNoTypeCheck(a) ==
    IF a.tgt = "noniter" THEN "TypeError"
    ELSE IF a.tgt = "nonlayer" THEN "AttributeError"
    ELSE "none"

AddStepError(a) ==
    IF ~a.inst THEN "TypeError"
    ELSE IF a.tgt = "noniter" THEN "TypeError"
    ELSE IF a.tgt = "nonlayer" THEN "AttributeError"
    ELSE "none"

\* An operation and the error it raised; at: where in the operation, if that matters.
OpAt(op, err, at) == [op |-> op, err |-> err, at |-> at]
Op(op, err) == OpAt(op, err, "")

AddStep(a, max) ==
    /\ builder.st = "ready"
    /\ lastOp' = Op("add_step", AddStepError(a))
    /\ lastArg' = a
    /\ IF AddStepError(a) # "none"
       THEN UNCHANGED <<steps, heap, regSteps>>
       ELSE /\ SizeSteps(regSteps) + SizeStep(a) <= max
            /\ steps' = Append(steps, AllocStep(heap, a).step)
            /\ heap' = AllocStep(heap, a).heap
            /\ regSteps' = Append(regSteps, a)
    /\ heap0' = heap'
    /\ lastBuild' = NoBuild
    /\ prevBuild' = NoBuild
    /\ UNCHANGED <<fs, builder, genIn, genOut>>

\* clear_steps (lines 66-67). The objects of the cleared steps are no longer
\* reachable from the builder and leave the model's heap.
ClearSteps ==
    /\ builder.st = "ready"
    /\ steps' = <<>>
    /\ heap' = <<>>
    /\ regSteps' = <<>>
    /\ heap0' = <<>>
    /\ lastBuild' = NoBuild
    /\ prevBuild' = NoBuild
    /\ lastOp' = Op("clear_steps", "none")
    /\ lastArg' = NoArg
    /\ UNCHANGED <<fs, builder, genIn, genOut>>

Build ==
    /\ builder.st = "ready"
    /\ heap' = BuildWorkspace(heap, steps).h
    /\ heap0' = heap
    /\ lastBuild' = BuildResult(BuildWorkspace(heap, steps))
    /\ prevBuild' = lastBuild
    /\ lastOp' = Op("build_workspace", BuildWorkspace(heap, steps).err)
    /\ lastArg' = NoArg
    /\ UNCHANGED <<fs, builder, steps, regSteps, genIn, genOut>>

NoBuilder == [st |-> "none", path |-> NoPath]
NoGenIn == [modules |-> <<>>, ws |-> NoPath]
NoGenOut == [st |-> "none", at |-> "", ret |-> NoPath, doc |-> NoDoc]

\* WorkspaceBuilder(arg). A constructor that raises gives the caller no builder:
\* the one held before, if any, stays.
Construct(arg, io) ==
    /\ fs' = NewBuilder(fs, arg, io).fs
    /\ lastOp' = Op("construct", NewBuilder(fs, arg, io).err)
    /\ lastArg' = arg
    /\ IF NewBuilder(fs, arg, io).err = "none"
       THEN /\ builder' = [st |-> "ready", path |-> ResolveWorkspacePath(arg)]
            /\ steps' = <<>>
            /\ heap' = <<>>
            /\ regSteps' = <<>>
       ELSE UNCHANGED <<builder, steps, heap, regSteps>>
    /\ heap0' = heap'
    /\ lastBuild' = NoBuild
    /\ prevBuild' = NoBuild
    /\ UNCHANGED <<genIn, genOut>>

\* A document json cannot serialize.
NonSerDoc == DictV([k \in {"a"} |-> NonSerV])
\* The documents the caller passes to write_workspace: the one the last build
\* returned, or one that cannot be serialized.
WriteDocs == {NonSerDoc} \cup (IF lastBuild.st = "ok" THEN {lastBuild.doc} ELSE {})

Write(doc, io) ==
    /\ builder.st = "ready"
    /\ fs' = WriteWorkspace(fs, builder.path, doc, io).fs
    /\ lastOp' = OpAt("write_workspace", WriteWorkspace(fs, builder.path, doc, io).err,
                      WriteWorkspace(fs, builder.path, doc, io).at)
    /\ lastArg' = doc
    /\ UNCHANGED <<builder, steps, heap, regSteps, heap0, lastBuild, prevBuild, genIn, genOut>>

\* Spec starts from a builder just constructed for WsPath.
InitFs == [dirs |-> {WsPath.dir},
           files |-> [p \in Paths |-> IF p = WsPath THEN File("json", DictV(EmptyMap)) ELSE Absent]]

Init ==
    /\ fs = InitFs
    /\ builder = [st |-> "ready", path |-> WsPath]
    /\ steps = <<>>
    /\ heap = <<>>
    /\ regSteps = <<>>
    /\ heap0 = <<>>
    /\ lastBuild = NoBuild
    /\ prevBuild = NoBuild
    /\ lastOp = Op("init", "none")
    /\ lastArg = NoArg
    /\ genIn = NoGenIn
    /\ genOut = NoGenOut

Next ==
    \/ \E a \in StepArgs(MaxSize - SizeSteps(regSteps)) : AddStep(a, MaxSize)
    \/ ClearSteps
    \/ Build

\* The builder's step list and build_workspace, on a builder already constructed.
Spec == Init /\ [][Next]_vars

\* Construction and persistence: any builder operation, from a filesystem where
\* each directory and file may or may not exist yet.
InitFile ==
    /\ fs \in {f \in [dirs : SUBSET Dirs, files : [Paths -> {Absent, Foreign}]] :
                  \A p \in Paths : p.dir \notin f.dirs => f.files[p] = Absent}
    /\ builder = NoBuilder
    /\ steps = <<>>
    /\ heap = <<>>
    /\ regSteps = <<>>
    /\ heap0 = <<>>
    /\ lastBuild = NoBuild
    /\ prevBuild = NoBuild
    /\ lastOp = Op("init", "none")
    /\ lastArg = NoArg
    /\ genIn = NoGenIn
    /\ genOut = NoGenOut

NextFile ==
    \/ \E arg \in Paths \cup {NoPath}, io \in IoOutcomes : Construct(arg, io)
    \/ \E a \in StepArgs(MaxSizeFile - SizeSteps(regSteps)) : AddStep(a, MaxSizeFile)
    \/ ClearSteps
    \/ Build
    \/ \E doc \in WriteDocs, io \in IoOutcomes : Write(doc, io)

SpecFile == InitFile /\ [][NextFile]_vars

(***************************************************************************)
(* generate_workspace_file (lines 126-203). A module record is [has: it    *)
(* has a "path", abs: the path is absolute, parts: the path's components   *)
(* as written]. The project root is /proj. A string with slashes is a      *)
(* sequence of its segments: "./src/a" is <<".", "src", "a">>.             *)
(***************************************************************************)
RootParts == <<"proj">>
ModRec(has, abs, parts) == [has |-> has, abs |-> abs, parts |-> parts]
ModuleRecords ==
    {ModRec(FALSE, FALSE, <<>>),
     ModRec(TRUE, FALSE, <<"a">>), ModRec(TRUE, FALSE, <<".", "a">>),
     ModRec(TRUE, TRUE, <<"proj", "a">>), ModRec(TRUE, FALSE, <<"b">>),
     ModRec(TRUE, FALSE, <<".">>), ModRec(TRUE, TRUE, <<"other", "x">>),
     ModRec(TRUE, FALSE, <<"..", "x">>)}
ModuleLists(n) == UNION {[1..l -> ModuleRecords] : l \in 0..n}

\* Path(module_path) (line 165): pathlib drops "." components and keeps "..".
IsNotDot(c) == c # "."
PurePath(parts) == SelectSeq(parts, IsNotDot)
\* Lines 165-167: a relative path is taken from the root.
ModulePath(m) == IF m.abs THEN PurePath(m.parts) ELSE RootParts \o PurePath(m.parts)
\* relative_to(root_path) (line 170) compares components; ok FALSE is its ValueError.
RelativeTo(path) ==
    IF Len(path) >= Len(RootParts) /\ SubSeq(path, 1, Len(RootParts)) = RootParts
    THEN [ok |-> TRUE, parts |-> SubSeq(path, Len(RootParts) + 1, Len(path))]
    ELSE [ok |-> FALSE, parts |-> <<>>]
\* as_posix() of a relative path: its components joined, "." for the empty path.
AsPosix(rel) == IF rel = <<>> THEN <<".">> ELSE rel
\* Line 177: f"./{relative_path.as_posix()}".
FolderPath(rel) == <<".">> \o AsPosix(rel)
RootFolder == <<".">>

\* Faulty variant of FolderStep, against which the properties are tried: no test against seen_paths.
FolderStepNoDedupe(acc, m) ==
    IF ~m.has THEN acc
    ELSE IF ~RelativeTo(ModulePath(m)).ok THEN acc
    ELSE [acc EXCEPT !.entries = Append(@, FolderPath(RelativeTo(ModulePath(m)).parts)),
                     !.seen = @ \cup {FolderPath(RelativeTo(ModulePath(m)).parts)}]

\* Faulty variant of FolderStep, against which the properties are tried: the ValueError of relative_to is not caught.
FolderStepRaises(acc, m) ==
    IF ~m.has THEN acc
    ELSE IF ~RelativeTo(ModulePath(m)).ok THEN [acc EXCEPT !.err = "ValueError"]
    ELSE IF FolderPath(RelativeTo(ModulePath(m)).parts) \in acc.seen THEN acc
    ELSE [acc EXCEPT !.entries = Append(@, FolderPath(RelativeTo(ModulePath(m)).parts)),
                     !.seen = @ \cup {FolderPath(RelativeTo(ModulePath(m)).parts)}]

\* The body of the loop over modules_data (lines 160-180).
\* acc is [entries: folder_entries, seen: seen_paths, err: the error raised].
FolderStep(acc, m) ==
    IF ~m.has THEN acc
    ELSE IF ~RelativeTo(ModulePath(m)).ok THEN acc
    ELSE IF FolderPath(RelativeTo(ModulePath(m)).parts) \in acc.seen THEN acc
    ELSE [acc EXCEPT !.entries = Append(@, FolderPath(RelativeTo(ModulePath(m)).parts)),
                     !.seen = @ \cup {FolderPath(RelativeTo(ModulePath(m)).parts)}]

RECURSIVE FolderLoop(_, _)
FolderLoop(ms, n) ==
    IF n = 0 THEN [entries |-> <<>>, seen |-> {}, err |-> "none"]
    ELSE LET acc == FolderLoop(ms, n - 1)
         IN IF acc.err # "none" THEN acc ELSE FolderStep(acc, ms[n])

\* Lines 157-184: the loop, then the root folder.
FolderEntries(ms) ==
    LET acc == FolderLoop(ms, Len(ms))
    IN IF acc.err # "none" \/ RootFolder \in acc.seen THEN acc
       ELSE [acc EXCEPT !.entries = Append(@, RootFolder)]

\* The objects of the step of lines 187-199: the folders list (1), the settings
\* dict (2), its list of the root path (3) and one dict for each folder entry;
\* and the step's content, which refers to the first two.
GenHeap(entries) ==
    <<Obj("list", [i \in 1..Len(entries) |-> Ref(3 + i)]),
      Obj("dict", [k \in {"python.analysis.extraPaths"} |-> Ref(3)]),
      Obj("list", <<Scal(RootParts)>>)>>
    \o [i \in 1..Len(entries) |-> Obj("dict", [k \in {"path"} |-> Scal(entries[i])])]
GenStep ==
    [target |-> <<>>, mapping |-> TRUE,
     content |-> [k \in {"folders", "settings"} |-> IF k = "folders" THEN Ref(1) ELSE Ref(2)]]

GenOut(st, at, ret, doc) == [st |-> st, at |-> at, ret |-> ret, doc |-> doc]
\* Lines 152-155: the path given, or <root>/<root name>.code-workspace.
GenWorkspacePath(ws) ==
    IF ws = NoPath THEN [dir |-> RootParts[Len(RootParts)], name |-> RootParts[Len(RootParts)],
                         ext |-> RequiredSuffix]
    ELSE ws

\* generate_workspace_file on filesystem f; io1 and io2 are what the operating
\* system does in the constructor and in write_workspace.
GenerateWorkspaceFile(f, ms, ws, io1, io2) ==
    LET p == GenWorkspacePath(ws)
        folders == FolderEntries(ms)
        nb == NewBuilder(f, p, io1)
        b == BuildWorkspace(GenHeap(folders.entries), <<GenStep>>)
        doc == DerefMap(b.h, b.root)
        w == WriteWorkspace(nb.fs, p, doc, io2)
    IN IF folders.err # "none"
       THEN [fs |-> f, out |-> GenOut(folders.err, "modules", NoPath, NoDoc)]
       ELSE IF nb.err # "none"
       THEN [fs |-> nb.fs, out |-> GenOut(nb.err, "construct", NoPath, NoDoc)]
       ELSE IF b.err # "none"
       THEN [fs |-> nb.fs, out |-> GenOut(b.err, "build", NoPath, NoDoc)]
       ELSE IF w.err # "none"
       THEN [fs |-> w.fs, out |-> GenOut(w.err, "write", NoPath, doc)]
       ELSE [fs |-> w.fs, out |-> GenOut("ok", "", p, doc)]

\* One call of generate_workspace_file, with the arguments drawn at the start.
Generate(io1, io2) ==
    /\ genOut.st = "none"
    /\ fs' = GenerateWorkspaceFile(fs, genIn.modules, genIn.ws, io1, io2).fs
    /\ genOut' = GenerateWorkspaceFile(fs, genIn.modules, genIn.ws, io1, io2).out
    /\ lastOp' = Op("generate_workspace_file", genOut'.st)
    /\ UNCHANGED <<builder, steps, heap, regSteps, heap0, lastBuild, prevBuild, lastArg, genIn>>

InitGen ==
    /\ fs \in {f \in [dirs : {{}, {WsPath.dir}}, files : [Paths -> {Absent, Foreign}]] :
                  /\ f.files[OtherPath] = Absent
                  /\ WsPath.dir \notin f.dirs => f.files[WsPath] = Absent}
    /\ genIn \in [modules : ModuleLists(MaxModules), ws : Paths \cup {NoPath}]
    /\ genOut = NoGenOut
    /\ builder = NoBuilder
    /\ steps = <<>>
    /\ heap = <<>>
    /\ regSteps = <<>>
    /\ heap0 = <<>>
    /\ lastBuild = NoBuild
    /\ prevBuild = NoBuild
    /\ lastOp = Op("init", "none")
    /\ lastArg = NoArg

NextGen == \E io1 \in IoOutcomes, io2 \in IoOutcomes : Generate(io1, io2)

SpecGen == InitGen /\ [][NextGen]_vars

(***************************************************************************)
(* What the claims speak of.                                               *)
(***************************************************************************)
KeysOf(s) == [i \in DOMAIN s.target |-> s.target[i].key]
Missing == [t |-> "missing", v |-> 0]
\* The value a key path leads to in build state b, from cur; Missing if a key of
\* the path is absent or the path runs into a value that is no mapping.
RECURSIVE ValueAt(_, _, _)
ValueAt(b, cur, ks) ==
    IF ks = <<>> THEN cur
    ELSE IF ~IsDict(b, cur) THEN Missing
    ELSE IF Head(ks) \notin DOMAIN MapOf(b, cur) THEN Missing
    ELSE ValueAt(b, MapOf(b, cur)[Head(ks)], Tail(ks))
Prefix(ks, j) == SubSeq(ks, 1, j)
\* The build state the last build_workspace() call was in after n steps.
After(n) == ApplySteps(heap0, steps, n)
Built == lastOp.op = "build_workspace"

\* C1: a second build_workspace() with no add_step or clear_steps in between
\* succeeds like the first and returns a structurally equal document.
C1_SecondBuildEqual ==
    prevBuild.st = "ok" => (lastBuild.st = "ok" /\ lastBuild.doc = prevBuild.doc)

\* C9: build_workspace() leaves every registered step as it was before the call:
\* the same layers with the same defaults, the same content.
C9_BuildKeepsSteps ==
    Built => StepsView(heap, steps) = StepsView(heap0, steps)

\* Step n of the last build met, on its target path, a value that is no mapping:
\* the path's first j keys all exist in the document as it was before the step,
\* and lead to a sequence or a scalar.
NonMappingAt(n, j) ==
    LET x == ValueAt(After(n - 1), Root, Prefix(KeysOf(steps[n]), j))
    IN x.t # "missing" /\ ~IsDict(After(n - 1), x)

\* C3: a step whose target path holds a non-mapping value, at an intermediate key
\* or at the final one, makes build_workspace() fail with the domain error, and
\* the failing step changes nothing in the document built so far.
C3_NonMappingFails ==
    Built =>
        \A n \in 1..Len(steps) :
            (After(n - 1).err = "none" /\ \E j \in 1..Len(steps[n].target) : NonMappingAt(n, j))
            => /\ lastBuild.st = "ADHDError"
               /\ lastBuild.at = n
               /\ heap = After(n).h
               /\ DerefMap(After(n).h, After(n).root) = DerefMap(After(n - 1).h, After(n - 1).root)

\* The last build failed at a step whose path ends in a non-mapping value that an
\* earlier step had put there.
C3_Witness ==
    /\ Built
    /\ lastBuild.st = "ADHDError"
    /\ lastBuild.at > 1
    /\ NonMappingAt(lastBuild.at, Len(steps[lastBuild.at].target))

\* Some registered step's content writes the last key of path ks, at the path
\* before it.
ContentWrites(ks) ==
    \E m \in 1..Len(steps) :
        /\ KeysOf(steps[m]) = Prefix(ks, Len(ks) - 1)
        /\ ks[Len(ks)] \in DOMAIN steps[m].content

\* C10: when the chain of step n is walked without an error, every key of the
\* chain that was absent from the document before the step is in the document
\* after it, at its nested position, and holds that layer's default object
\* unless a step's content writes that key; a key that was present keeps its value.
C10_ChainCreatesDefaults ==
    Built =>
        \A n \in 1..Len(steps) :
            (After(n - 1).err = "none"
             /\ ChainEnsureKey(After(n - 1), Root, steps[n].target, 1).err = "none")
            => \A j \in 1..Len(steps[n].target) :
                   LET ks == Prefix(KeysOf(steps[n]), j)
                       before == ValueAt(After(n - 1), Root, ks)
                       after == ValueAt(After(n), Root, ks)
                   IN IF before.t = "missing"
                      THEN /\ after.t # "missing"
                           /\ ContentWrites(ks) \/ after = steps[n].target[j].def
                      ELSE after = before

\* A successful build in which a step created both keys of a two-layer chain.
C10_Witness ==
    /\ Built
    /\ lastBuild.st = "ok"
    /\ \E n \in 1..Len(steps) :
           /\ Len(steps[n].target) = 2
           /\ ValueAt(After(n - 1), Root, Prefix(KeysOf(steps[n]), 1)).t = "missing"
           /\ ValueAt(After(Len(steps)), Root, KeysOf(steps[n])) = steps[n].target[2].def

\* Step m, registered after step w, overwrote what step w wrote at key k of path
\* ks: it wrote key k at the same path, or replaced a mapping the path runs through.
Overwrote(m, w, ks, k) ==
    /\ m > w
    /\ \/ KeysOf(steps[m]) = ks /\ k \in DOMAIN steps[m].content
       \/ \E l \in 1..Len(ks) :
              KeysOf(steps[m]) = Prefix(ks, l - 1) /\ ks[l] \in DOMAIN steps[m].content

\* Some registered step's target path runs through path ks.
DescendsInto(ks) ==
    \E m \in 1..Len(steps) :
        Len(steps[m].target) >= Len(ks) /\ Prefix(KeysOf(steps[m]), Len(ks)) = ks

\* C2: of two steps with the same target path, the document holds at that path,
\* for a key of both contents, the later step's value itself (the earlier value
\* is replaced, not merged into), and for a key of one content, that content's
\* value; unless a third step registered later overwrote it. Where no build has
\* run on these steps before and no step's path runs through the value, it reads
\* as the caller wrote it.
C2_LaterStepWins ==
    (Built /\ lastBuild.st = "ok") =>
        \A i \in 1..Len(steps), j \in 1..Len(steps) :
            (i < j /\ KeysOf(steps[i]) = KeysOf(steps[j]))
            => \A k \in DOMAIN steps[i].content \cup DOMAIN steps[j].content :
                   LET w == IF k \in DOMAIN steps[j].content THEN j ELSE i
                       ks == KeysOf(steps[i])
                       x == ValueAt(After(Len(steps)), Root, Append(ks, k))
                   IN \/ \E m \in (1..Len(steps)) \ {i, j} : Overwrote(m, w, ks, k)
                      \/ /\ x = steps[w].content[k]
                         /\ (StepsView(heap0, steps) = regSteps /\ ~DescendsInto(Append(ks, k)))
                            => Deref(heap, x) = regSteps[w].content[k]

\* Two steps with the same path wrote mappings at the same key, the earlier one a
\* mapping with an entry; the document holds the later step's mapping, without it.
C2_Witness ==
    /\ Built
    /\ lastBuild.st = "ok"
    /\ \E i \in 1..Len(steps), j \in 1..Len(steps), k \in Keys :
           /\ i < j
           /\ KeysOf(steps[i]) = KeysOf(steps[j])
           /\ k \in DOMAIN steps[i].content \cap DOMAIN steps[j].content
           /\ regSteps[i].content[k].t = "dict"
           /\ regSteps[i].content[k].m # EmptyMap
           /\ regSteps[j].content[k] = DictV(EmptyMap)
           /\ lastBuild.doc = DictV([x \in {k} |-> DictV(EmptyMap)])

\* A well-formed BuildStep in the claim's sense: a WorkspaceBuildingStep whose
\* target is a sequence of TargetLayer and whose content is a mapping.
WellFormed(a) == a.inst /\ a.tgt = "layers" /\ a.mapping
\* add_step appended its argument: one more step, which reads as the argument,
\* after the earlier steps, which are the same objects and read as before.
Appended ==
    /\ lastOp'.err = "none"
    /\ Len(steps') = Len(steps) + 1
    /\ SubSeq(steps', 1, Len(steps)) = steps
    /\ StepsView(heap', steps) = StepsView(heap, steps)
    /\ StepView(heap', steps'[Len(steps')]) = lastArg'

\* C6 as stated: add_step rejects with a type error every argument that is no
\* well-formed BuildStep, leaving the step list unchanged, and appends every
\* well-formed step as the last element.
C6_RejectsNotWellFormed ==
    [][lastOp'.op = "add_step" =>
          IF WellFormed(lastArg') THEN Appended
          ELSE lastOp'.err = "TypeError" /\ steps' = steps]_vars

\* C6 as amended: add_step rejects with a TypeError every argument that is no
\* WorkspaceBuildingStep, and with a TypeError or an AttributeError a step whose
\* target cannot be read as a sequence of layers; a rejected call leaves the step
\* list unchanged. Every other WorkspaceBuildingStep is appended as the last
\* element, also one whose content is no mapping.
C6_RejectsNonInstances ==
    [][lastOp'.op = "add_step" =>
          IF lastArg'.inst /\ lastArg'.tgt = "layers" THEN Appended
          ELSE /\ lastOp'.err \in {"TypeError", "AttributeError"}
               /\ ~lastArg'.inst => lastOp'.err = "TypeError"
               /\ steps' = steps]_vars

\* add_step has appended, after another step, a step whose content is no mapping.
C6_Witness ==
    /\ lastOp = Op("add_step", "none")
    /\ ~lastArg.mapping
    /\ Len(steps) = 2
    /\ ~steps[2].mapping

\* C5 as stated: a build_workspace() or write_workspace() call that raises leaves
\* the target file's contents exactly as they were before the call.
C5_FailureKeepsFile ==
    [][(lastOp'.op \in {"build_workspace", "write_workspace"} /\ lastOp'.err # "none")
          => fs' = fs]_vars

\* C5 as amended: build_workspace(), raising or not, changes no file; a
\* write_workspace() that raises because the document cannot be serialized or the
\* file cannot be opened leaves the file as it was; one that raises after the
\* file was opened leaves no other file changed and the target file truncated:
\* empty, or holding a part of the new text.
C5_FailureKeepsOrTruncatesFile ==
    [][/\ lastOp'.op = "build_workspace" => fs' = fs
       /\ (lastOp'.op = "write_workspace" /\ lastOp'.err # "none")
          => IF lastOp'.at \in {"dumps", "open"} THEN fs' = fs
             ELSE /\ fs'.dirs = fs.dirs
                  /\ \A p \in Paths \ {builder.path} : fs'.files[p] = fs.files[p]
                  /\ fs'.files[builder.path] \in {File("empty", NoDoc), File("partial", lastArg')}]_vars

\* A write that failed after the file was opened, on a builder with steps, left a
\* part of the new text in the file.
C5_Witness ==
    /\ lastOp = OpAt("write_workspace", "ADHDError", "write")
    /\ steps # <<>>
    /\ fs.files[builder.path] = File("partial", lastArg)

\* C7: constructing a WorkspaceBuilder with a path that does not end with
\* ".code-workspace" raises the invalid-path error and leaves the filesystem as
\* it was: no file and no directory is created.
C7_BadSuffixNoEffect ==
    [][(lastOp'.op = "construct" /\ ~EndsWithSuffix(ResolveWorkspacePath(lastArg')))
          => (lastOp'.err = "ValueError" /\ fs' = fs /\ builder' = builder)]_vars

\* A constructor was refused for its suffix while its parent directory did not
\* exist, and the directory still does not.
C7_Witness ==
    /\ lastOp = Op("construct", "ValueError")
    /\ lastArg = OtherPath
    /\ OtherPath.dir \notin fs.dirs
    /\ fs.files[OtherPath] = Absent

\* A module record that contributes a folder: it has a path, and the path is
\* under the root, component by component as pathlib compares them.
Contributes(m) == m.has /\ RelativeTo(ModulePath(m)).ok
FolderOf(m) == FolderPath(RelativeTo(ModulePath(m)).parts)
\* The records that are the first in the list to contribute their folder.
Firsts(ms) ==
    {i \in DOMAIN ms :
        /\ Contributes(ms[i])
        /\ \A j \in 1..(i - 1) : Contributes(ms[j]) => FolderOf(ms[j]) # FolderOf(ms[i])}
Nth(S, n) == CHOOSE x \in S : Cardinality({y \in S : y < x}) = n - 1
\* The path strings of the "folders" list of a document.
FoldersOf(doc) ==
    [i \in DOMAIN doc.m["folders"].m |-> doc.m["folders"].m[i].m["path"].v]
Generated == genOut.st = "ok"
WrittenFolders == FoldersOf(fs.files[genOut.ret].doc)

\* C4: the "folders" list of the written document (a) holds no path string twice,
\* (b) holds, in the order of first occurrence in the input, one "./<relative
\* path>" for each distinct module path under the root, and (c) holds "." exactly
\* once, as its last element.
C4_FoldersUniqueRootLast ==
    Generated =>
        /\ fs.files[genOut.ret].kind = "json"
        /\ \A i \in DOMAIN WrittenFolders, j \in DOMAIN WrittenFolders :
               i # j => WrittenFolders[i] # WrittenFolders[j]
        /\ Len(WrittenFolders) = Cardinality(Firsts(genIn.modules)) + 1
        /\ \A i \in 1..(Len(WrittenFolders) - 1) :
               /\ WrittenFolders[i] = FolderOf(genIn.modules[Nth(Firsts(genIn.modules), i)])
               /\ WrittenFolders[i] # RootFolder
        /\ WrittenFolders[Len(WrittenFolders)] = RootFolder

\* A document was written for a list that names one folder twice and the root
\* itself: it holds "./." for that record and "." last.
C4_Witness ==
    /\ Generated
    /\ Len(genIn.modules) = MaxModules
    /\ Cardinality(Firsts(genIn.modules)) = 2
    /\ \E i \in DOMAIN genIn.modules : genIn.modules[i] = ModRec(TRUE, FALSE, <<".">>)
    /\ \E i \in DOMAIN WrittenFolders : WrittenFolders[i] = <<".", ".">>
    /\ WrittenFolders[Len(WrittenFolders)] = RootFolder

====
